---- MODULE Spec2Model ----
(***************************************************************************)
(* A state-machine model of the multi-provider OAuth 2.0 gateway:          *)
(* build_oauth_providers (src/main.rs), the two handlers oauth_authorize   *)
(* and oauth_callback (src/server/handlers.rs), the session layer set up   *)
(* in Server::run (src/server/server.rs) and the provider adapters         *)
(* (src/providers/*.rs).                                                   *)
(*                                                                         *)
(* Every step of the server emits at most one HTTP response (resp) and at  *)
(* most one outbound HTTP request (sent), and consumes at most one answer   *)
(* of an upstream endpoint (recv); the three variables describe the step   *)
(* just taken and are reset by every step that emits or consumes nothing.  *)
(***************************************************************************)
EXTENDS Integers, Sequences, FiniteSets, TLC

VARIABLES
    settings,         \* Settings.oauth as loaded: provider name -> OAuthSettings
    process,          \* main: "starting", "serving" or "aborted"
    oauth_providers,  \* AppState.oauth_providers: provider name -> adapter
    store,            \* the MokaStore: session -> <<>> or <<record>>
    now,              \* wall clock, in seconds
    nonce,            \* number of random (csrf, pkce) pairs drawn so far
    cb,               \* per session: the oauth_callback task in flight
    resp,             \* HTTP response emitted by the step just taken
    sent,             \* outbound HTTP request emitted by the step just taken
    recv,             \* answer of an upstream endpoint consumed by the step just taken
    phase,            \* observer: the flow's state in the spec's state machine
    latest,           \* observer: per session, what its most recent initiate wrote, and when
    issued            \* observer: the provider, csrf_token and pkce_verifier of every initiate so far

vars == <<settings, process, oauth_providers, store, now, nonce, cb, resp, sent, recv,
          phase, latest, issued>>

----------------------------------------------------------------------------
(* Bounds of the model *)

MaxInitiates == 2     \* random pairs drawn in one behaviour

Sessions == {"sess1", "sess2"}
RequestedProviders == {"google", "github", "not-a-real-provider"}
Codes == {"C", "C2"}
AccessTokens == {"ya29.token"}

(* Program constants *)

CACHE_TTL == 3600
MAX_CAPACITY == 20
OAUTH_SESSION_STATE_KEY == "oauth_session_state"

\* The instants the clock shows: the start, half a lifetime, and a second past a
\* lifetime
Clock == {0, CACHE_TTL \div 2, CACHE_TTL + 1}
\* Entries of the cache other browsers may hold at any moment: none, or all of it
OtherLoads == {0, MAX_CAPACITY}

----------------------------------------------------------------------------
(* Configuration and startup: src/settings.rs, src/providers/mod.rs,       *)
(* src/main.rs                                                             *)

OAUTH_PROVIDER_REGISTRY == {"google", "github", "twitter", "discord", "spotify"}

\* Strings url::Url::parse rejects: empty, without a scheme, relative
InvalidUrls == {"", "not a url", "/callback"}

\* AuthUrl::new, TokenUrl::new, RedirectUrl::new and Url::parse accept the string
UrlParses(u) == u \notin InvalidUrls

OAuthSettings(name) ==
    [client_id     |-> "id-" \o name,
     client_secret |-> "secret-" \o name,
     auth_url      |-> "https://" \o name \o ".example/authorize",
     token_url     |-> "https://" \o name \o ".example/token",
     redirect_uri  |-> "https://gw.example/callback/" \o name,
     user_info_url |-> "https://api." \o name \o ".example/userinfo"]

\* Settings.oauth as loaded from Settings.toml: "gitlab" has no factory.
SettingsOAuth == [name \in {"google", "github", "gitlab"} |-> OAuthSettings(name)]

AllUrlsParse_three(c) ==
    /\ UrlParses(c.auth_url)
    /\ UrlParses(c.token_url)
    /\ UrlParses(c.redirect_uri)

\* The four expect calls every entry goes through
AllUrlsParse(c) ==
    /\ UrlParses(c.auth_url)
    /\ UrlParses(c.token_url)
    /\ UrlParses(c.redirect_uri)
    /\ UrlParses(c.user_info_url)

BasicClient(c) ==
    [client_id     |-> c.client_id,
     client_secret |-> c.client_secret,
     auth_uri      |-> c.auth_url,
     token_uri     |-> c.token_url,
     redirect_uri  |-> c.redirect_uri]

\* OAuthProviderFactory::create: the adapter of the factory registered as `name`
FactoryCreate(name, client, user_info_url) ==
    [kind |-> name, oauth_client |-> client, user_info_url |-> user_info_url]

\* The outcome of a build that an expect has ended
Panic == [panic |-> "Invalid url"]

build_oauth_providers_strict(oauth) ==
    IF \/ \E name \in DOMAIN oauth : ~AllUrlsParse(oauth[name])
       \/ \E name \in DOMAIN oauth : name \notin OAUTH_PROVIDER_REGISTRY
    THEN Panic
    ELSE [name \in DOMAIN oauth |->
            FactoryCreate(name, BasicClient(oauth[name]), oauth[name].user_info_url)]

build_oauth_providers_lookup_first(oauth) ==
    IF \E name \in (DOMAIN oauth) \cap OAUTH_PROVIDER_REGISTRY : ~AllUrlsParse(oauth[name])
    THEN Panic
    ELSE [name \in (DOMAIN oauth) \cap OAUTH_PROVIDER_REGISTRY |->
            FactoryCreate(name, BasicClient(oauth[name]), oauth[name].user_info_url)]

\* Every entry is validated (expect) before the registry is consulted, so one
\* unparsable URL panics whatever the iteration order of the HashMap.
build_oauth_providers(oauth) ==
    IF \E name \in DOMAIN oauth : ~AllUrlsParse(oauth[name])
    THEN Panic
    ELSE [name \in (DOMAIN oauth) \cap OAUTH_PROVIDER_REGISTRY |->
            FactoryCreate(name, BasicClient(oauth[name]), oauth[name].user_info_url)]

\* main: build the adapters and serve; a panic of the build ends the process
\* before the listener is bound
main ==
    /\ process = "starting"
    /\ LET built == build_oauth_providers(settings)
       IN IF built = Panic
          THEN process' = "aborted" /\ UNCHANGED oauth_providers
          ELSE process' = "serving" /\ oauth_providers' = built
    /\ UNCHANGED <<settings, store, now, nonce, cb, resp, sent, recv, phase, latest, issued>>

\* Configurations a Settings.toml may hold: any of the names, each entry with
\* four parsable URLs or with one of them replaced by a string that does not parse
ConfigNames == {"google", "github", "gitlab"}
UrlFields == {"auth_url", "token_url", "redirect_uri", "user_info_url"}
SettingsVariants(name) ==
    {OAuthSettings(name)}
      \cup {[OAuthSettings(name) EXCEPT ![f] = "not a url"] : f \in UrlFields}
Configs ==
    UNION {{c \in [N -> UNION {SettingsVariants(n) : n \in N}] :
               \A n \in N : c[n] \in SettingsVariants(n)} : N \in SUBSET ConfigNames}

----------------------------------------------------------------------------
(* Provider adapters: src/providers/*.rs                                   *)

get_scopes_reordered(adapter) ==
    CASE adapter.kind = "google"  -> <<"email">>
      [] adapter.kind = "github"  -> <<"user:email">>
      [] adapter.kind = "twitter" -> <<"tweet.read", "users.read">>
      [] adapter.kind = "discord" -> <<"identify">>
      [] adapter.kind = "spotify" -> <<"user-read-email">>

get_scopes(adapter) ==
    CASE adapter.kind = "google"  -> <<"email">>
      [] adapter.kind = "github"  -> <<"user:email">>
      [] adapter.kind = "twitter" -> <<"users.read", "tweet.read">>
      [] adapter.kind = "discord" -> <<"identify">>
      [] adapter.kind = "spotify" -> <<"user-read-email">>

\* serde_json::Value
JStr(s) == [t |-> "string", s |-> s]
JNum(n) == [t |-> "number", n |-> n]
JNull == [t |-> "null"]
JObj(f) == [t |-> "object", o |-> f]

\* Value::get(key): None unless an object holding the key
JGet(j, key) == IF j.t = "object" /\ key \in DOMAIN j.o THEN <<j.o[key]>> ELSE <<>>
\* Value[key]: Null unless an object holding the key
JIndex(j, key) == IF j.t = "object" /\ key \in DOMAIN j.o THEN j.o[key] ELSE JNull
\* Value::as_str, Value::as_u64
as_str(j) == IF j.t = "string" THEN <<j.s>> ELSE <<>>
as_u64(j) == IF j.t = "number" /\ j.n >= 0 THEN <<j.n>> ELSE <<>>
\* Display of a Value: its JSON text
JToString(j) ==
    CASE j.t = "string" -> "\"" \o j.s \o "\""
      [] j.t = "number" -> ToString(j.n)
      [] j.t = "null"   -> "null"
      [] j.t = "object" -> "{...}"

\* What the user-info endpoint may answer
TransportError == [kind |-> "transport", status |-> 0, body |-> JNull]
HttpReply(status, body) == [kind |-> "http", status |-> status, body |-> body]
is_success(status) == status >= 200 /\ status <= 299

Ok(v) == [ok |-> TRUE, val |-> <<v>>]
Err(kind) == [ok |-> FALSE, val |-> <<>>, err |-> kind]

UserInfo(id, provider) == [id |-> id, provider |-> provider]

\* The identity field each adapter extracts from the 2xx body, as a string
extract_id(kind, body) ==
    CASE kind = "google"  ->
           LET e == JGet(body, "email") IN IF e = <<>> THEN <<>> ELSE as_str(e[1])
      [] kind = "github"  ->
           LET n == as_u64(JIndex(body, "id")) IN IF n = <<>> THEN <<>> ELSE <<ToString(n[1])>>
      [] kind = "twitter" -> as_str(JIndex(JIndex(body, "data"), "username"))
      [] kind = "discord" -> as_str(JIndex(body, "username"))
      [] kind = "spotify" ->
           LET v == JGet(body, "id") IN IF v = <<>> THEN <<>> ELSE <<JToString(v[1])>>

\* eyre::eyre!(format, arg): an ad-hoc Report, which carries its message and no
\* type or variant of its own
eyre(format, arg) == [format |-> format, arg |-> arg]

\* The provider's name as the adapter's messages spell it
ProviderTitle(kind) ==
    CASE kind = "google"  -> "Google"
      [] kind = "github"  -> "Github"
      [] kind = "twitter" -> "Twitter"
      [] kind = "discord" -> "Discord"
      [] kind = "spotify" -> "Spotify"

\* The message of the ok_or_else that guards the identity field
NoFieldMessage(kind) ==
    CASE kind = "google"  -> "No email field in Google user info response"
      [] kind = "github"  -> "No valid user ID in GitHub response"
      [] kind = "twitter" -> "No username field in Twitter user info response"
      [] kind = "discord" -> "No username field in Discord user info response"
      [] kind = "spotify" -> "No id field in Spotify user info response"

get_user_info(adapter, reply) ==
    LET failed == "Failed to get user info from " \o ProviderTitle(adapter.kind) \o ": {}"
    IN IF reply.kind = "transport" THEN Err(eyre(failed, "error sending request"))
       ELSE IF ~is_success(reply.status) THEN Err(eyre(failed, ToString(reply.status)))
       ELSE LET id == extract_id(adapter.kind, reply.body)
            IN IF id = <<>> THEN Err(eyre(NoFieldMessage(adapter.kind), ""))
               ELSE Ok(UserInfo(id[1], adapter.kind))

\* Bodies of a user-info endpoint: the identity fields of every provider with
\* their documented types (the id numeric as GitHub's, or a string as Spotify's),
\* the same fields with other JSON types, and an object without them
TypedBody(id) ==
    JObj(("email" :> JStr("alice@example.com")) @@ ("id" :> id)
           @@ ("username" :> JStr("alice")) @@ ("data" :> JObj(("username" :> JStr("alice_tw")))))
MistypedBody(id) ==
    JObj(("email" :> JNum(42)) @@ ("id" :> id)
           @@ ("username" :> JNull) @@ ("data" :> JObj(("username" :> JNum(7)))))
AdapterReplies ==
    {TransportError, HttpReply(401, JNull), HttpReply(503, JNull), HttpReply(200, JObj(<<>>))}
      \cup {HttpReply(200, TypedBody(id)) : id \in {JNum(583231), JStr("smedjan")}}
      \cup {HttpReply(200, MistypedBody(id)) : id \in {JNum(583231), JStr("smedjan"), JNull}}

FullBody == JObj(("email" :> JStr("alice@example.com")) @@ ("id" :> JNum(583231)))
UserInfoReplies ==
    {TransportError, HttpReply(401, JNull), HttpReply(200, FullBody), HttpReply(200, JObj(<<>>))}

----------------------------------------------------------------------------
(* HTTP responses: src/server/errors.rs, src/server/handlers.rs            *)

Response(status, message, json, location) ==
    [status |-> status, message |-> message, json |-> json, location |-> location]

internal_error(message) == Response(500, message, <<>>, <<>>)

bad_request_found(message) == Response(302, message, <<>>, <<>>)

bad_request(message) == Response(400, message, <<>>, <<>>)
\* Redirect::to: 303 See Other with a Location header
RedirectTo(url) == Response(303, "", <<>>, <<url>>)
\* CallbackResponse serialised by axum::Json
CallbackResponse(user_info) == Response(200, "", <<[user_id |-> user_info.id]>>, <<>>)

NoResponse == [op |-> "none", session |-> "", r |-> Response(0, "", <<>>, <<>>)]
NoRequest == [to |-> "none"]
NoAnswer == [from |-> "none"]

----------------------------------------------------------------------------
(* The session layer: SessionManagerLayer over MokaStore with                *)
(* Expiry::OnInactivity(CACHE_TTL), src/server/server.rs                     *)

expiry_date_doubled(t) == t + 2 * CACHE_TTL

\* Expiry::OnSessionEnd in place of OnInactivity: the library's default of two weeks
expiry_date_on_session_end(t) == t + 1209600

\* Expiry::OnInactivity: the expiry date a save at time t gives the record.
\* Only a modified session is saved, so reading never moves the date.
expiry_date(t) == t + CACHE_TTL

store_load_stale(st, s, t) == st[s]

\* MokaStore::load: the record kept for the session, unless it has expired
store_load(st, s, t) ==
    IF st[s] # <<>> /\ st[s][1].expiry_date > t THEN st[s] ELSE <<>>

\* Session::get(key): the value under key in the loaded record
session_get(st, s, t, key) ==
    LET rec == store_load(st, s, t)
    IN IF rec # <<>> /\ key \in DOMAIN rec[1].data THEN <<rec[1].data[key]>> ELSE <<>>

session_insert_if_absent(data, key, value) ==
    IF key \in DOMAIN data THEN data ELSE (key :> value)

\* Session::insert(key, value) on the loaded record's data
session_insert(data, key, value) ==
    [k \in (DOMAIN data) \cup {key} |-> IF k = key THEN value ELSE data[k]]

\* The loaded data of a session (empty when the store holds no live record)
session_data(st, s, t) ==
    LET rec == store_load(st, s, t) IN IF rec = <<>> THEN <<>> ELSE rec[1].data

session_save_keeping(st, s, data, t) ==
    IF st[s] # <<>> THEN st
    ELSE [st EXCEPT ![s] = <<[data |-> data, expiry_date |-> expiry_date(t)]>>]

session_save_merging(st, s, data, t) ==
    [st EXCEPT ![s] =
        <<[data |-> IF st[s] = <<>> THEN data
                    ELSE [k \in DOMAIN data |->
                            IF k \in DOMAIN st[s][1].data
                            THEN [data[k] EXCEPT !.provider = st[s][1].data[k].provider]
                            ELSE data[k]],
           expiry_date |-> expiry_date(t)]>>]

\* Session::save, run by the middleware after the handler returned: the whole
\* record is written with a fresh expiry date
session_save(st, s, data, t) ==
    [st EXCEPT ![s] = <<[data |-> data, expiry_date |-> expiry_date(t)]>>]

\* Entries the cache holds, expired but not yet purged ones included
CacheSize(st, n) == Cardinality({s \in Sessions : st[s] # <<>>}) + n

----------------------------------------------------------------------------
(* oauth_authorize: src/server/handlers.rs, src/primitives.rs               *)

OAuthSessionState_unregistered(provider, pkce_verifier, csrf_token) ==
    [provider |-> "gitlab", pkce_verifier |-> pkce_verifier, csrf_token |-> csrf_token]

OAuthSessionState_swapped(provider, pkce_verifier, csrf_token) ==
    [provider |-> provider, pkce_verifier |-> csrf_token, csrf_token |-> pkce_verifier]

OAuthSessionState(provider, pkce_verifier, csrf_token) ==
    [provider |-> provider, pkce_verifier |-> pkce_verifier, csrf_token |-> csrf_token]

\* BASE64URL(SHA256(verifier)), as an uninterpreted injective function
S256(verifier) == <<"S256", verifier>>

new_random_fixed(n) == <<"csrf", 0>>

\* CsrfToken::new_random and PkceCodeChallenge::new_random_sha256: the n-th draw
\* of a generator that never repeats a value
new_random(n) == <<"csrf", n>>
new_random_sha256(n) ==
    [challenge |-> S256(<<"pkce", n>>), verifier |-> <<"pkce", n>>]

authorize_url_plain(client, scopes, csrf_token, pkce_code_challenge) ==
    [endpoint              |-> client.auth_uri,
     response_type         |-> "code",
     client_id             |-> client.client_id,
     redirect_uri          |-> client.redirect_uri,
     scope                 |-> scopes,
     state                 |-> csrf_token,
     code_challenge        |-> pkce_code_challenge[2],
     code_challenge_method |-> "plain"]

\* Client::authorize_url(..).add_scopes(..).set_pkce_challenge(..).url()
authorize_url(client, scopes, csrf_token, pkce_code_challenge) ==
    [endpoint              |-> client.auth_uri,
     response_type         |-> "code",
     client_id             |-> client.client_id,
     redirect_uri          |-> client.redirect_uri,
     scope                 |-> scopes,
     state                 |-> csrf_token,
     code_challenge        |-> pkce_code_challenge,
     code_challenge_method |-> "S256"]

providers_get_or_first(providers, name) ==
    IF name \in DOMAIN providers THEN <<providers[name]>>
    ELSE <<providers[CHOOSE n \in DOMAIN providers : TRUE]>>

\* HashMap::get on AppState.oauth_providers
providers_get(providers, name) ==
    IF name \in DOMAIN providers THEN <<providers[name]>> ELSE <<>>

\* The response of a step, with the handler and the session it answers
Emit(op, s, r) == [op |-> op, session |-> s, r |-> r]

\* What Session::insert may return to the handler
InsertResults == {"ok", "err"}

authorize_response_redirecting(inserted, auth_url) == RedirectTo(auth_url)

\* Lines 100-108: the error return on a failed insert, the redirect otherwise
authorize_response(inserted, auth_url) ==
    IF inserted = "err"
    THEN internal_error("Failed to insert OAuth state into session")
    ELSE RedirectTo(auth_url)

\* `inserted` is the result Session::insert returns to the handler
oauth_authorize(s, provider, inserted) ==
    LET found == providers_get(oauth_providers, provider)
    IN /\ process = "serving"
       /\ sent' = NoRequest
       /\ recv' = NoAnswer
       /\ UNCHANGED <<settings, process, oauth_providers, now, cb>>
       /\ IF found = <<>>
          THEN /\ resp' = Emit("authorize", s, bad_request("Invalid provider"))
               /\ UNCHANGED <<store, nonce, phase, latest, issued>>
          ELSE /\ nonce < MaxInitiates
               /\ LET n == nonce + 1
                      pkce == new_random_sha256(n)
                      csrf_token == new_random(n)
                      auth_url == authorize_url(found[1].oauth_client, get_scopes(found[1]),
                                                csrf_token, pkce.challenge)
                      oauth_session_state ==
                          OAuthSessionState(provider, pkce.verifier, csrf_token)
                      data == session_insert(session_data(store, s, now),
                                             OAUTH_SESSION_STATE_KEY, oauth_session_state)
                  IN /\ nonce' = n
                     /\ issued' = Append(issued, [provider |-> provider,
                                                  csrf_token |-> auth_url.state,
                                                  pkce_verifier |-> pkce.verifier])
                     /\ resp' = Emit("authorize", s, authorize_response(inserted, auth_url))
                     /\ IF inserted = "err"
                        THEN UNCHANGED <<store, phase, latest>>
                        ELSE /\ store' = session_save(store, s, data, now)
                             /\ phase' = [phase EXCEPT ![s] = "Initiated"]
                             /\ latest' = [latest EXCEPT ![s] =
                                             <<[flow |-> oauth_session_state, at |-> now]>>]

----------------------------------------------------------------------------
(* oauth_callback: src/server/handlers.rs                                   *)

csrf_mismatch_never(oauth_session_state, state) == FALSE

csrf_mismatch_any_issued(oauth_session_state, state) ==
    ~\E i \in 1..Len(issued) : issued[i].csrf_token = state

\* The comparison of the stored csrf_token with the `state` parameter
csrf_mismatch(oauth_session_state, state) == oauth_session_state.csrf_token # state

exchange_code_first_verifier(s, client, code, pkce_verifier) ==
    [to            |-> "token",
     session       |-> s,
     url           |-> client.token_uri,
     grant_type    |-> "authorization_code",
     code          |-> code,
     code_verifier |-> <<"pkce", 1>>,
     client_id     |-> client.client_id,
     client_secret |-> client.client_secret,
     redirect_uri  |-> client.redirect_uri]

\* exchange_code(code).set_pkce_verifier(verifier): the token request
exchange_code(s, client, code, pkce_verifier) ==
    [to            |-> "token",
     session       |-> s,
     url           |-> client.token_uri,
     grant_type    |-> "authorization_code",
     code          |-> code,
     code_verifier |-> pkce_verifier,
     client_id     |-> client.client_id,
     client_secret |-> client.client_secret,
     redirect_uri  |-> client.redirect_uri]

\* The adapter's single GET to its user-info URL
user_info_request(s, adapter, access_token) ==
    [to            |-> "userinfo",
     session       |-> s,
     url           |-> adapter.user_info_url,
     authorization |-> <<"Bearer", access_token>>]

Idle == [pc |-> "idle"]

oauth_callback_locked(s, code, state) ==
    LET got == session_get(store, s, now, OAUTH_SESSION_STATE_KEY)
        reply(r) == Emit("callback", s, r)
    IN /\ process = "serving"
       /\ \A o \in Sessions : cb[o].pc = "idle"
       /\ recv' = NoAnswer
       /\ UNCHANGED <<settings, process, oauth_providers, store, now, nonce, latest, issued>>
       /\ IF got = <<>>
          THEN /\ resp' = reply(bad_request("OAuth session state not found in session"))
               /\ sent' = NoRequest
               /\ UNCHANGED <<cb, phase>>
          ELSE IF csrf_mismatch(got[1], state)
          THEN /\ resp' = reply(bad_request("CSRF token mismatch"))
               /\ sent' = NoRequest
               /\ phase' = [phase EXCEPT ![s] = "CsrfRejected"]
               /\ UNCHANGED cb
          ELSE LET found == providers_get(oauth_providers, got[1].provider)
               IN IF found = <<>>
                  THEN /\ resp' = reply(bad_request("Invalid provider"))
                       /\ sent' = NoRequest
                       /\ UNCHANGED <<cb, phase>>
                  ELSE /\ sent' = exchange_code(s, found[1].oauth_client, code,
                                                got[1].pkce_verifier)
                       /\ cb' = [cb EXCEPT ![s] =
                                   [pc |-> "exchange", flow |-> got[1]]]
                       /\ resp' = NoResponse
                       /\ UNCHANGED phase

\* Lines 172-233: session lookup, CSRF comparison, provider lookup, and the
\* token request, at which the task suspends.
oauth_callback(s, code, state) ==
    LET got == session_get(store, s, now, OAUTH_SESSION_STATE_KEY)
        reply(r) == Emit("callback", s, r)
    IN /\ process = "serving"
       /\ cb[s].pc = "idle"
       /\ recv' = NoAnswer
       /\ UNCHANGED <<settings, process, oauth_providers, store, now, nonce, latest, issued>>
       /\ IF got = <<>>
          THEN /\ resp' = reply(bad_request("OAuth session state not found in session"))
               /\ sent' = NoRequest
               /\ UNCHANGED <<cb, phase>>
          ELSE IF csrf_mismatch(got[1], state)
          THEN /\ resp' = reply(bad_request("CSRF token mismatch"))
               /\ sent' = NoRequest
               /\ phase' = [phase EXCEPT ![s] = "CsrfRejected"]
               /\ UNCHANGED cb
          ELSE LET found == providers_get(oauth_providers, got[1].provider)
               IN IF found = <<>>
                  THEN /\ resp' = reply(bad_request("Invalid provider"))
                       /\ sent' = NoRequest
                       /\ UNCHANGED <<cb, phase>>
                  ELSE /\ sent' = exchange_code(s, found[1].oauth_client, code,
                                                got[1].pkce_verifier)
                       /\ cb' = [cb EXCEPT ![s] =
                                   [pc |-> "exchange", flow |-> got[1]]]
                       /\ resp' = NoResponse
                       /\ UNCHANGED phase

oauth_callback_get_failed_as_absent(s, code, state) ==
    /\ process = "serving"
    /\ cb[s].pc = "idle"
    /\ resp' = Emit("callback", s, bad_request("OAuth session state not found in session"))
    /\ sent' = NoRequest
    /\ recv' = NoAnswer
    /\ UNCHANGED <<settings, process, oauth_providers, store, now, nonce, cb, phase, latest,
                   issued>>

\* Lines 178-186: the handler in the run where Session::get returns Err: the
\* early return of internal_error, before anything else is read or sent. The
\* session was not modified, so the middleware saves nothing.
oauth_callback_get_failed(s, code, state) ==
    /\ process = "serving"
    /\ cb[s].pc = "idle"
    /\ resp' = Emit("callback", s,
                    internal_error("Failed to retrieve OAuth session state from session"))
    /\ sent' = NoRequest
    /\ recv' = NoAnswer
    /\ UNCHANGED <<settings, process, oauth_providers, store, now, nonce, cb, phase, latest,
                   issued>>

\* What the token endpoint may answer
TokenOutcomes == {"ok", "error_response", "transport", "redirect"}

request_async_following(outcome, access_token) ==
    IF outcome \in {"ok", "redirect"} THEN Ok(access_token) ELSE Err(outcome)

\* request_async over the client built with redirect::Policy::none(): a 3xx
\* answer is handed back as it is, and is no token response
request_async(outcome, access_token) ==
    IF outcome = "ok" THEN Ok(access_token) ELSE Err(outcome)

token_response_deregistering(s, outcome, access_token) ==
    /\ cb[s].pc = "exchange"
    /\ recv' = [from |-> "token", session |-> s, outcome |-> outcome]
    /\ resp' = Emit("callback", s, bad_request("OAuth token exchange failed"))
    /\ sent' = NoRequest
    /\ cb' = [cb EXCEPT ![s] = Idle]
    /\ phase' = [phase EXCEPT ![s] = "ExchangeFailed"]
    /\ oauth_providers' = [name \in DOMAIN oauth_providers \ {cb[s].flow.provider} |->
                             oauth_providers[name]]
    /\ UNCHANGED <<settings, process, store, now, nonce, latest, issued>>

\* Lines 234-249: the token endpoint answered the task suspended at request_async
token_response(s, outcome, access_token) ==
    LET c == cb[s]
        reply(r) == Emit("callback", s, r)
        token == request_async(outcome, access_token)
    IN /\ c.pc = "exchange"
       /\ recv' = [from |-> "token", session |-> s, outcome |-> outcome]
       /\ UNCHANGED <<settings, process, oauth_providers, store, now, nonce, latest, issued>>
       /\ IF token.ok
          THEN /\ sent' = user_info_request(s, oauth_providers[c.flow.provider], token.val[1])
               /\ cb' = [cb EXCEPT ![s] = [c EXCEPT !.pc = "userinfo"]]
               /\ resp' = NoResponse
               /\ UNCHANGED phase
          ELSE /\ resp' = reply(bad_request("OAuth token exchange failed"))
               /\ sent' = NoRequest
               /\ cb' = [cb EXCEPT ![s] = Idle]
               /\ phase' = [phase EXCEPT ![s] = "ExchangeFailed"]

user_info_response_retrying(s, http) ==
    /\ cb[s].pc = "userinfo"
    /\ recv' = [from |-> "userinfo", session |-> s, reply |-> http]
    /\ sent' = user_info_request(s, oauth_providers[cb[s].flow.provider], "ya29.token")
    /\ resp' = NoResponse
    /\ UNCHANGED <<settings, process, oauth_providers, store, now, nonce, cb, phase, latest,
                   issued>>

\* Lines 249-264: the user-info endpoint answered the task suspended in get_user_info
user_info_response(s, http) ==
    LET c == cb[s]
        reply(r) == Emit("callback", s, r)
    IN /\ c.pc = "userinfo"
       /\ recv' = [from |-> "userinfo", session |-> s, reply |-> http]
       /\ UNCHANGED <<settings, process, oauth_providers, store, now, nonce, latest, issued>>
       /\ sent' = NoRequest
       /\ cb' = [cb EXCEPT ![s] = Idle]
       /\ LET user_info == get_user_info(oauth_providers[c.flow.provider], http)
          IN IF user_info.ok
             THEN /\ resp' = reply(CallbackResponse(user_info.val[1]))
                  /\ phase' = [phase EXCEPT ![s] = "Completed"]
             ELSE /\ resp' = reply(internal_error("Failed to get user info"))
                  /\ UNCHANGED phase

\* The caller has gone: no response, and the session the task held is dropped
Dropped(s) == [op |-> "dropped", session |-> s, r |-> Response(0, "", <<>>, <<>>)]

Cancel_torn(s) ==
    /\ cb[s].pc \in {"exchange", "userinfo"}
    /\ cb' = [cb EXCEPT ![s] = Idle]
    /\ resp' = Dropped(s)
    /\ sent' = NoRequest
    /\ recv' = NoAnswer
    /\ store' = [store EXCEPT ![s] =
                   IF @ = <<>> THEN @
                   ELSE <<[@[1] EXCEPT !.data[OAUTH_SESSION_STATE_KEY].pkce_verifier = <<"pkce", 0>>]>>]
    /\ UNCHANGED <<settings, process, oauth_providers, now, nonce, phase, latest, issued>>

\* The caller disconnects while the task is suspended at request_async or in
\* get_user_info: the future is dropped at its await point, the outbound call
\* abandoned. The task has touched the session by Session::get alone.
Cancel(s) ==
    /\ cb[s].pc \in {"exchange", "userinfo"}
    /\ cb' = [cb EXCEPT ![s] = Idle]
    /\ resp' = Dropped(s)
    /\ sent' = NoRequest
    /\ recv' = NoAnswer
    /\ UNCHANGED <<settings, process, oauth_providers, store, now, nonce, phase, latest, issued>>

----------------------------------------------------------------------------
(* The environment: the clock and the cache's housekeeping                   *)

Tick(t) ==
    /\ t > now
    /\ now' = t
    /\ resp' = NoResponse
    /\ sent' = NoRequest
    /\ recv' = NoAnswer
    /\ UNCHANGED <<settings, process, oauth_providers, store, nonce, cb, phase, latest, issued>>

\* MokaStore::new(Some(20)): housekeeping drops an expired entry, or any entry
\* while the cache, with the n entries of other browsers, holds more than its
\* capacity
Evict(s, n) ==
    /\ store[s] # <<>>
    /\ \/ store[s][1].expiry_date <= now
       \/ CacheSize(store, n) > MAX_CAPACITY
    /\ store' = [store EXCEPT ![s] = <<>>]
    /\ resp' = NoResponse
    /\ sent' = NoRequest
    /\ recv' = NoAnswer
    /\ UNCHANGED <<settings, process, oauth_providers, now, nonce, cb, phase, latest, issued>>

----------------------------------------------------------------------------

Init ==
    /\ settings = SettingsOAuth
    /\ process = "serving"
    /\ oauth_providers = build_oauth_providers(settings)
    /\ store = [s \in Sessions |-> <<>>]
    /\ now = 0
    /\ nonce = 0
    /\ cb = [s \in Sessions |-> Idle]
    /\ resp = NoResponse
    /\ sent = NoRequest
    /\ recv = NoAnswer
    /\ phase = [s \in Sessions |-> "NotStarted"]
    /\ latest = [s \in Sessions |-> <<>>]
    /\ issued = <<>>

StateValues == {new_random(n) : n \in 0..MaxInitiates}

Next ==
    \/ \E s \in Sessions, provider \in RequestedProviders, inserted \in InsertResults :
          oauth_authorize(s, provider, inserted)
    \/ \E s \in Sessions, code \in Codes, state \in StateValues : oauth_callback(s, code, state)
    \/ \E s \in Sessions, o \in TokenOutcomes, a \in AccessTokens : token_response(s, o, a)
    \/ \E s \in Sessions, http \in UserInfoReplies : user_info_response(s, http)
    \/ \E s \in Sessions : Cancel(s)
    \/ \E t \in Clock : Tick(t)
    \/ \E s \in Sessions, n \in OtherLoads : Evict(s, n)

Spec == Init /\ [][Next]_vars

\* The process from its start, over every configuration, up to the first requests
StartupInit ==
    /\ settings \in Configs
    /\ process = "starting"
    /\ oauth_providers = <<>>
    /\ store = [s \in Sessions |-> <<>>]
    /\ now = 0
    /\ nonce = 0
    /\ cb = [s \in Sessions |-> Idle]
    /\ resp = NoResponse
    /\ sent = NoRequest
    /\ recv = NoAnswer
    /\ phase = [s \in Sessions |-> "NotStarted"]
    /\ latest = [s \in Sessions |-> <<>>]
    /\ issued = <<>>

StartupNext ==
    \/ main
    \/ \E s \in Sessions, provider \in RequestedProviders, inserted \in InsertResults :
          oauth_authorize(s, provider, inserted)

SpecStartup == StartupInit /\ [][StartupNext]_vars

\* The server with an adapter of every registered provider, one browser, and a
\* user-info endpoint that answers with any of the AdapterReplies
AdaptersInit ==
    /\ settings = [name \in OAUTH_PROVIDER_REGISTRY |-> OAuthSettings(name)]
    /\ process = "serving"
    /\ oauth_providers = build_oauth_providers(settings)
    /\ store = [s \in Sessions |-> <<>>]
    /\ now = 0
    /\ nonce = 0
    /\ cb = [s \in Sessions |-> Idle]
    /\ resp = NoResponse
    /\ sent = NoRequest
    /\ recv = NoAnswer
    /\ phase = [s \in Sessions |-> "NotStarted"]
    /\ latest = [s \in Sessions |-> <<>>]
    /\ issued = <<>>

AdaptersNext ==
    \/ \E provider \in OAUTH_PROVIDER_REGISTRY : oauth_authorize("sess1", provider, "ok")
    \/ \E state \in StateValues : oauth_callback("sess1", "C", state)
    \/ \E o \in TokenOutcomes, a \in AccessTokens : token_response("sess1", o, a)
    \/ \E http \in AdapterReplies : user_info_response("sess1", http)

SpecAdapters == AdaptersInit /\ [][AdaptersNext]_vars

\* The server over a session store whose reads may fail
SessionFaultsNext ==
    \/ \E s \in Sessions, provider \in RequestedProviders : oauth_authorize(s, provider, "ok")
    \/ \E s \in Sessions, state \in StateValues : oauth_callback(s, "C", state)
    \/ \E s \in Sessions, state \in StateValues : oauth_callback_get_failed(s, "C", state)
    \/ \E s \in Sessions, a \in AccessTokens : token_response(s, "ok", a)
    \/ \E s \in Sessions : user_info_response(s, HttpReply(200, FullBody))
    \/ \E t \in Clock : Tick(t)

SpecSessionFaults == Init /\ [][SessionFaultsNext]_vars

\* The server while time advances: initiates come until LastInitiate, and the
\* clock runs on to an instant at which every flow has outlived the TTL
LastInitiate == CACHE_TTL \div 2
LiveClock == Clock \cup {LastInitiate + CACHE_TTL + 1}

ExpiryNext ==
    \/ \E s \in Sessions, provider \in {"google", "not-a-real-provider"} :
          now <= LastInitiate /\ oauth_authorize(s, provider, "ok")
    \/ \E s \in Sessions, state \in StateValues : oauth_callback(s, "C", state)
    \/ \E s \in Sessions, o \in TokenOutcomes, a \in AccessTokens : token_response(s, o, a)
    \/ \E s \in Sessions : user_info_response(s, HttpReply(200, FullBody))
    \/ \E s \in Sessions : Cancel(s)
    \/ \E t \in LiveClock : Tick(t)
    \/ \E s \in Sessions : Evict(s, 0)

\* Time passes whatever the server does
SpecExpiry == Init /\ [][ExpiryNext]_vars /\ WF_vars(\E t \in LiveClock : Tick(t))

----------------------------------------------------------------------------
(* Properties                                                                *)

\* The FlowState a callback on session s would read now
Flow(s) == session_get(store, s, now, OAUTH_SESSION_STATE_KEY)

NoActiveFlow == bad_request("OAuth session state not found in session")
CsrfMismatch == bad_request("CSRF token mismatch")

\* C1: on a session whose last callback succeeded, with no initiate since, every
\* callback fails with NoActiveFlow and sends no token request.
SingleUseAfterSuccess ==
    [][\A s \in Sessions, code \in Codes, state \in StateValues :
         (phase[s] = "Completed" /\ oauth_callback(s, code, state))
            => (resp' = Emit("callback", s, NoActiveFlow) /\ sent' = NoRequest)]_vars

\* C2: a callback that finds a FlowState whose csrf_token differs from the `state`
\* it presents ends at once with 400 CsrfMismatch, having sent no token request
\* and no user-info request.
CsrfGatesExchange ==
    [][\A s \in Sessions, code \in Codes, state \in StateValues :
         (oauth_callback(s, code, state) /\ Flow(s) # <<>> /\ Flow(s)[1].csrf_token # state)
            => /\ resp' = Emit("callback", s, CsrfMismatch)
               /\ resp'.r.status = 400
               /\ sent' = NoRequest
               /\ cb'[s].pc = "idle"]_vars

\* A callback has just been refused for its state, on a session holding a flow
CsrfGatesExchangeWitness ==
    \E s \in Sessions : resp = Emit("callback", s, CsrfMismatch) /\ Flow(s) # <<>>

\* C3: on a session whose last callback was refused with CsrfMismatch, with no
\* initiate since, a callback presenting the csrf_token of the session's flow
\* ends at once without a token request and without an identity.
CsrfFailureConsumesFlow ==
    [][\A s \in Sessions, code \in Codes, state \in StateValues :
         (/\ phase[s] = "CsrfRejected"
          /\ latest[s] # <<>>
          /\ state = latest[s][1].flow.csrf_token
          /\ oauth_callback(s, code, state))
            => (sent' = NoRequest /\ cb'[s].pc = "idle" /\ resp'.r.json = <<>>)]_vars

\* C4: on a session whose last callback failed at the token exchange, with no
\* initiate since, every callback fails with NoActiveFlow and sends no token
\* request.
ExchangeFailureIsTerminal ==
    [][\A s \in Sessions, code \in Codes, state \in StateValues :
         (phase[s] = "ExchangeFailed" /\ oauth_callback(s, code, state))
            => (resp' = Emit("callback", s, NoActiveFlow) /\ sent' = NoRequest)]_vars

\* The session holds no FlowState: it never initiated, its flow has outlived the
\* TTL, or the store holds no entry for it
HoldsNoFlow(s) ==
    \/ latest[s] = <<>>
    \/ now - latest[s][1].at > CACHE_TTL
    \/ store[s] = <<>>

\* C5: a callback on a session that holds no FlowState ends at once with 400
\* NoActiveFlow, having sent no token request and no user-info request.
MissingFlow ==
    [][\A s \in Sessions, code \in Codes, state \in StateValues :
         (oauth_callback(s, code, state) /\ HoldsNoFlow(s))
            => /\ resp' = Emit("callback", s, NoActiveFlow)
               /\ resp'.r.status = 400
               /\ sent' = NoRequest
               /\ cb'[s].pc = "idle"]_vars

\* A callback has just been refused on a session whose flow had expired
MissingFlowWitness ==
    \E s \in Sessions :
        /\ resp = Emit("callback", s, NoActiveFlow)
        /\ latest[s] # <<>>
        /\ now - latest[s][1].at > CACHE_TTL
        /\ phase[s] = "Initiated"

\* C6: an initiate naming a provider that is no key of the adapter mapping
\* answers 400 without a redirect, and leaves the store as it was.
UnknownProviderOnInitiate ==
    [][\A s \in Sessions, provider \in RequestedProviders, inserted \in InsertResults :
         (oauth_authorize(s, provider, inserted) /\ provider \notin DOMAIN oauth_providers)
            => /\ resp'.r.status = 400
               /\ resp'.r.location = <<>>
               /\ store' = store]_vars

\* An unknown provider has just been refused on a session holding a live flow
UnknownProviderOnInitiateWitness ==
    \E s \in Sessions :
        /\ resp = Emit("authorize", s, bad_request("Invalid provider"))
        /\ Flow(s) # <<>>

\* C7: the entry the store keeps for a session holds exactly the FlowState of the
\* session's most recent initiate; a callback that finds it is refused with
\* CsrfMismatch for every other state value, an earlier initiate's included, and
\* passes the comparison only with the most recent initiate's value.
OverwriteOnReinitiation ==
    /\ [](\A s \in Sessions :
            store[s] # <<>> =>
               /\ latest[s] # <<>>
               /\ store[s][1].data = (OAUTH_SESSION_STATE_KEY :> latest[s][1].flow))
    /\ [][\A s \in Sessions, code \in Codes, state \in StateValues :
            (oauth_callback(s, code, state) /\ Flow(s) # <<>>)
               => IF state = latest[s][1].flow.csrf_token
                  THEN sent'.to = "token" /\ sent'.code_verifier = latest[s][1].flow.pkce_verifier
                  ELSE resp' = Emit("callback", s, CsrfMismatch) /\ sent' = NoRequest]_vars

\* Both draws were initiates of one session, which holds the second's flow, and a
\* callback on it has just been refused for its state
OverwriteOnReinitiationWitness ==
    \E s \in Sessions :
        /\ nonce = 2
        /\ \A o \in Sessions \ {s} : latest[o] = <<>>
        /\ latest[s] # <<>>
        /\ Flow(s) = <<latest[s][1].flow>>
        /\ latest[s][1].flow.csrf_token = new_random(2)
        /\ resp = Emit("callback", s, CsrfMismatch)

\* C8: the flow an initiate wrote is readable by a callback as the initiate
\* answers; a callback begun more than CACHE_TTL seconds after the session's most
\* recent initiate fails with NoActiveFlow, whatever callbacks did in between.
Expiry ==
    /\ [](resp.op = "authorize" /\ resp.r.status = 303
            => Flow(resp.session) = <<latest[resp.session][1].flow>>)
    /\ [][\A s \in Sessions, code \in Codes, state \in StateValues :
            (/\ oauth_callback(s, code, state)
             /\ latest[s] # <<>>
             /\ now - latest[s][1].at > CACHE_TTL)
               => (resp' = Emit("callback", s, NoActiveFlow) /\ sent' = NoRequest)]_vars

\* A callback has just been refused on a session whose flow a callback had
\* completed before it outlived the TTL
ExpiryWitness ==
    \E s \in Sessions :
        /\ resp = Emit("callback", s, NoActiveFlow)
        /\ latest[s] # <<>>
        /\ now - latest[s][1].at > CACHE_TTL
        /\ phase[s] = "Completed"

\* The identity the user-info body carries for the provider
Identity(provider, body) ==
    CASE provider = "google" -> body.o["email"].s
      [] provider = "github" -> ToString(body.o["id"].n)

\* C9: a callback whose state matched and whose code the token endpoint accepted
\* answers a user-info body holding the identity field with 200 and a body
\* carrying the identity as user_id and the provider's name.
EndToEndSuccess ==
    [][\A s \in Sessions :
         (user_info_response(s, HttpReply(200, FullBody)))
            => /\ resp'.r.status = 200
               /\ Len(resp'.r.json) = 1
               /\ resp'.r.json[1].user_id = Identity(cb[s].flow.provider, FullBody)
               /\ "provider" \in DOMAIN resp'.r.json[1]
               /\ resp'.r.json[1].provider = cb[s].flow.provider]_vars

\* C10: a successful initiate leaves in the session's entry a FlowState whose
\* csrf_token is the `state` of the returned URL, whose pkce_verifier has the
\* URL's challenge as its S256 transform, and whose provider is the one requested.
InitiateBindsUrlAndState ==
    [][\A s \in Sessions, provider \in RequestedProviders, inserted \in InsertResults :
         (oauth_authorize(s, provider, inserted) /\ resp'.r.status = 303)
            => LET f == session_get(store', s, now', OAUTH_SESSION_STATE_KEY)
                   url == resp'.r.location[1]
               IN /\ f # <<>>
                  /\ url.state = f[1].csrf_token
                  /\ url.code_challenge_method = "S256"
                  /\ url.code_challenge = S256(f[1].pkce_verifier)
                  /\ f[1].provider = provider]_vars

\* An initiate has just answered with a redirect, over an earlier flow
InitiateBindsUrlAndStateWitness ==
    \E s \in Sessions :
        /\ resp.op = "authorize" /\ resp.session = s /\ resp.r.status = 303
        /\ nonce = 2
        /\ Flow(s) # <<>>
        /\ resp.r.location[1].state = Flow(s)[1].csrf_token

\* C11: over all the initiates so far, on whatever sessions and for whatever
\* providers, no two returned the same `state` value and no two drew the same
\* PKCE verifier.
Freshness ==
    \A i, j \in 1..Len(issued) :
        i # j => /\ issued[i].csrf_token # issued[j].csrf_token
                 /\ issued[i].pkce_verifier # issued[j].pkce_verifier

\* Two initiates have answered on one session, the second with a redirect
FreshnessWitness ==
    \E s \in Sessions :
        /\ Len(issued) = 2
        /\ resp.op = "authorize" /\ resp.session = s /\ resp.r.status = 303
        /\ \A o \in Sessions \ {s} : latest[o] = <<>>
        /\ resp.r.location[1].state = issued[2].csrf_token

InsertFailed == internal_error("Failed to insert OAuth state into session")

\* C12: an initiate answers with a redirect only when Session::insert accepted
\* the FlowState, which the session's entry then holds under the `state` of the
\* URL; when the insert is rejected the initiate answers 500 without a Location
\* and the store is as it was.
RedirectOnlyAfterDurableState ==
    [][\A s \in Sessions, provider \in RequestedProviders, inserted \in InsertResults :
         oauth_authorize(s, provider, inserted)
            => /\ resp'.r.location # <<>>
                    => /\ inserted = "ok"
                       /\ LET f == session_get(store', s, now', OAUTH_SESSION_STATE_KEY)
                          IN f # <<>> /\ f[1].csrf_token = resp'.r.location[1].state
               /\ (inserted = "err" /\ provider \in DOMAIN oauth_providers)
                    => /\ resp' = Emit("authorize", s, InsertFailed)
                       /\ resp'.r.status = 500
                       /\ resp'.r.location = <<>>
                       /\ store' = store]_vars

\* An initiate has just failed on the insert, on a session holding an earlier flow
RedirectOnlyAfterDurableStateWitness ==
    \E s \in Sessions :
        /\ resp = Emit("authorize", s, InsertFailed)
        /\ Flow(s) # <<>>
        /\ Len(issued) = 2
        /\ Flow(s)[1].csrf_token = issued[1].csrf_token

\* C13: every failure of initiate and callback has its fixed status: unknown
\* provider 400, rejected insert 500, missing flow 400, CSRF mismatch 400, failed
\* token exchange 400, failed user-info fetch 500; a 3xx is answered by a
\* successful initiate alone and a 2xx by a successful callback alone.
StatusMapping ==
    /\ [](resp.op \in {"authorize", "callback"} => resp.r.status \in {200, 303, 400, 500})
    /\ [][/\ \A s \in Sessions, provider \in RequestedProviders, inserted \in InsertResults :
               oauth_authorize(s, provider, inserted)
                  => resp'.r.status = IF provider \notin DOMAIN oauth_providers THEN 400
                                      ELSE IF inserted = "err" THEN 500
                                      ELSE 303
          /\ \A s \in Sessions, code \in Codes, state \in StateValues :
               oauth_callback(s, code, state)
                  => IF Flow(s) = <<>> \/ Flow(s)[1].csrf_token # state
                     THEN resp'.r.status = 400 /\ resp'.op = "callback"
                     ELSE resp' = NoResponse
          /\ \A s \in Sessions, o \in TokenOutcomes, a \in AccessTokens :
               token_response(s, o, a)
                  => IF o = "ok"
                     THEN resp' = NoResponse
                     ELSE resp'.r.status = 400 /\ resp'.op = "callback"
          /\ \A s \in Sessions, http \in UserInfoReplies :
               user_info_response(s, http)
                  => /\ resp'.op = "callback"
                     /\ resp'.r.status = IF http = HttpReply(200, FullBody) THEN 200 ELSE 500
         ]_vars

\* A callback has just failed at the user-info fetch, after the token endpoint
\* accepted the code
StatusMappingWitness ==
    \E s \in Sessions :
        /\ resp = Emit("callback", s, internal_error("Failed to get user info"))
        /\ resp.r.status = 500
        /\ phase[s] = "Initiated"

TokenExchangeFailed == bad_request("OAuth token exchange failed")

\* C14: when the token endpoint answers the code exchange with a redirect, the
\* callback ends with 400 TokenExchangeError: the step sends no request, neither
\* to the redirect's target nor to the user-info endpoint, and leaves no task
\* that could send one.
TokenRedirectIsFailure ==
    [][\A s \in Sessions, a \in AccessTokens :
         token_response(s, "redirect", a)
            => /\ resp' = Emit("callback", s, TokenExchangeFailed)
               /\ resp'.r.status = 400
               /\ sent' = NoRequest
               /\ cb'[s].pc = "idle"]_vars

\* The token endpoint has just answered a callback's exchange with a redirect
TokenRedirectIsFailureWitness ==
    \E s \in Sessions :
        /\ recv = [from |-> "token", session |-> s, outcome |-> "redirect"]
        /\ resp = Emit("callback", s, TokenExchangeFailed)
        /\ sent = NoRequest

CrossSessionIndependence ==
    [][\A s \in Sessions :
         (/\ Flow(s) # <<>>
          /\ now' - latest[s][1].at < CACHE_TTL
          /\ ~(\E provider \in RequestedProviders, inserted \in InsertResults :
                  oauth_authorize(s, provider, inserted)))
            => session_get(store', s, now', OAUTH_SESSION_STATE_KEY) = Flow(s)]_vars

\* C17: the store's entry of a session is at every moment absent or the complete
\* FlowState an initiate wrote, all three fields; the step that cancels a callback
\* suspended at the token exchange or the user-info fetch leaves the session's
\* FlowState as it was or removes it whole.
AtomicUnderCancellation ==
    /\ [](\A s \in Sessions :
            store[s] # <<>> =>
              LET f == store[s][1].data[OAUTH_SESSION_STATE_KEY]
                  w == latest[s][1].flow
              IN /\ DOMAIN f = {"provider", "pkce_verifier", "csrf_token"}
                 /\ f.provider = w.provider
                 /\ f.pkce_verifier = w.pkce_verifier
                 /\ f.csrf_token = w.csrf_token)
    /\ [][\A s \in Sessions :
            Cancel(s) => \/ store'[s] = store[s]
                         \/ store'[s] = <<>>]_vars

\* A callback has just been cancelled on a session whose flow is still readable
AtomicUnderCancellationWitness ==
    \E s \in Sessions :
        /\ resp = Dropped(s)
        /\ cb[s].pc = "idle"
        /\ Flow(s) = <<latest[s][1].flow>>

\* The secrets the server holds: client secrets and access tokens (strings), and
\* the PKCE verifiers drawn so far
ClientSecrets == {oauth_providers[p].oauth_client.client_secret : p \in DOMAIN oauth_providers}
Verifiers == {issued[i].pkce_verifier : i \in 1..Len(issued)}

\* The strings a response carries: its message, the values of its JSON body, and
\* the textual parameters of its Location
ResponseStrings(r) ==
    {r.message}
      \cup (IF r.json = <<>> THEN {} ELSE {r.json[1][k] : k \in DOMAIN r.json[1]})
      \cup (IF r.location = <<>> THEN {}
            ELSE LET url == r.location[1]
                 IN {url.endpoint, url.response_type, url.client_id, url.redirect_uri,
                     url.code_challenge_method}
                      \cup {url.scope[i] : i \in 1..Len(url.scope)})

FourUrlsValid(c) ==
    \A f \in UrlFields : UrlParses(c[f])

\* C19: once main has run over a configuration whose URLs are all valid, the
\* process serves, and the keys of the adapter mapping are exactly the configured
\* names the registry holds, each with the adapter of its own factory; a
\* configured name the registry lacks is left out.
RegistrySkip ==
    (process # "starting" /\ \A name \in DOMAIN settings : FourUrlsValid(settings[name]))
       => /\ process = "serving"
          /\ DOMAIN oauth_providers =
                {name \in DOMAIN settings : name \in OAUTH_PROVIDER_REGISTRY}
          /\ \A name \in DOMAIN oauth_providers : oauth_providers[name].kind = name

\* The process serves google while its configuration names gitlab too, which the
\* registry lacks
RegistrySkipWitness ==
    /\ process = "serving"
    /\ DOMAIN settings = {"google", "gitlab"}
    /\ DOMAIN oauth_providers = {"google"}

\* C20: once main has run over a configuration in which some URL of some entry
\* does not parse, the process has aborted: no adapter exists and no request has
\* been answered; and every adapter of the mapping holds the four URLs of its
\* entry, all of which parse.
FailFastConfiguration ==
    /\ (process # "starting" /\ \E name \in DOMAIN settings : ~FourUrlsValid(settings[name]))
          => /\ process = "aborted"
             /\ DOMAIN oauth_providers = {}
    /\ process # "serving" => (resp = NoResponse /\ nonce = 0 /\ issued = <<>>)
    /\ \A name \in DOMAIN oauth_providers :
          LET a == oauth_providers[name]
          IN /\ name \in DOMAIN settings
             /\ FourUrlsValid(settings[name])
             /\ a.oauth_client.auth_uri = settings[name].auth_url
             /\ a.oauth_client.token_uri = settings[name].token_url
             /\ a.oauth_client.redirect_uri = settings[name].redirect_uri
             /\ a.user_info_url = settings[name].user_info_url

\* The process has aborted over a configuration whose google entry has a token
\* URL that does not parse, next to a valid github entry
FailFastConfigurationWitness ==
    /\ process = "aborted"
    /\ DOMAIN settings = {"google", "github"}
    /\ ~UrlParses(settings["google"].token_url)
    /\ FourUrlsValid(settings["github"])

\* C21: while the process serves, no step changes the adapter mapping: it keeps
\* its keys and, under each key, its adapter.
AdapterMappingImmutable ==
    [][process = "serving" => oauth_providers' = oauth_providers]_vars

\* A callback has just failed at the user-info fetch and another has completed
\* before it, under the mapping main built
AdapterMappingImmutableWitness ==
    \E s \in Sessions :
        /\ resp = Emit("callback", s, internal_error("Failed to get user info"))
        /\ \E o \in Sessions : phase[o] = "Completed"
        /\ oauth_providers = build_oauth_providers(settings)
        /\ DOMAIN oauth_providers = {"google", "github"}

\* The scopes each provider's adapter asks for, in order
FixedScopes ==
    ("google" :> <<"email">>) @@ ("github" :> <<"user:email">>)
      @@ ("twitter" :> <<"users.read", "tweet.read">>) @@ ("discord" :> <<"identify">>)
      @@ ("spotify" :> <<"user-read-email">>)

\* C22: get_scopes of every adapter is its fixed sequence, at every moment, and
\* the URL a successful initiate returns asks for exactly that sequence, in that
\* order, at the authorization endpoint of the provider named.
ScopesVerbatim ==
    /\ [](\A name \in DOMAIN oauth_providers :
             get_scopes(oauth_providers[name]) = FixedScopes[name])
    /\ [][\A s \in Sessions, provider \in OAUTH_PROVIDER_REGISTRY, inserted \in InsertResults :
            (oauth_authorize(s, provider, inserted) /\ resp'.r.location # <<>>)
               => /\ resp'.r.location[1].scope = FixedScopes[provider]
                  /\ resp'.r.location[1].endpoint = settings[provider].auth_url]_vars

\* A second initiate has just answered with twitter's URL and its two scopes
ScopesVerbatimWitness ==
    /\ resp.op = "authorize" /\ resp.r.status = 303
    /\ Len(issued) = 2
    /\ resp.r.location[1].endpoint = settings["twitter"].auth_url
    /\ resp.r.location[1].scope = <<"users.read", "tweet.read">>

\* The identity field of the provider as documented, read off the body: the field's
\* plain text when the body holds it with the documented JSON type, nothing
\* otherwise
StringAt(j, key) ==
    IF j.t = "object" /\ key \in DOMAIN j.o /\ j.o[key].t = "string"
    THEN <<j.o[key].s>> ELSE <<>>
DocumentedIdentity(provider, body) ==
    CASE provider = "google"  -> StringAt(body, "email")
      [] provider = "github"  ->
           IF body.t = "object" /\ "id" \in DOMAIN body.o /\ body.o["id"].t = "number"
           THEN <<ToString(body.o["id"].n)>> ELSE <<>>
      [] provider = "twitter" ->
           IF body.t = "object" /\ "data" \in DOMAIN body.o
           THEN StringAt(body.o["data"], "username") ELSE <<>>
      [] provider = "discord" -> StringAt(body, "username")
      [] provider = "spotify" -> StringAt(body, "id")

\* C23: when the user-info endpoint answers 2xx with a body holding the
\* provider's identity field, get_user_info returns the UserInfo of that value as
\* plain text and of the adapter's name, and the callback answers with that id.
NormalizationFidelity ==
    [][\A s \in Sessions, http \in AdapterReplies :
         (/\ user_info_response(s, http)
          /\ http.kind = "http" /\ is_success(http.status)
          /\ DocumentedIdentity(cb[s].flow.provider, http.body) # <<>>)
            => LET provider == cb[s].flow.provider
                   plain == DocumentedIdentity(provider, http.body)[1]
                   user_info == get_user_info(oauth_providers[provider], http)
               IN /\ user_info.ok
                  /\ user_info.val[1] = UserInfo(plain, provider)
                  /\ resp'.r.json # <<>>
                  /\ resp'.r.json[1].user_id = plain]_vars

\* C24: when the user-info endpoint answers 2xx with a body that lacks the
\* provider's identity field or holds it with another JSON type, get_user_info
\* fails with the adapter's schema error, and the callback answers no identity.
SchemaErrors ==
    [][\A s \in Sessions, http \in AdapterReplies :
         (/\ user_info_response(s, http)
          /\ http.kind = "http" /\ is_success(http.status)
          /\ DocumentedIdentity(cb[s].flow.provider, http.body) = <<>>)
            => LET provider == cb[s].flow.provider
                   user_info == get_user_info(oauth_providers[provider], http)
               IN /\ ~user_info.ok
                  /\ user_info.val = <<>>
                  /\ user_info.err.format = NoFieldMessage(provider)
                  /\ resp'.r.json = <<>>]_vars

\* How a reply of the user-info endpoint fails, if it does
FailureClass(provider, http) ==
    IF http.kind = "transport" THEN "transport"
    ELSE IF ~is_success(http.status) THEN "status"
    ELSE IF DocumentedIdentity(provider, http.body) = <<>> THEN "schema"
    ELSE "none"

\* What tells the kind of an eyre Report apart from another's: an ad-hoc Report
\* has no type or variant, its constructor fixes its format string alone
ErrorKind(report) == report.format

\* C25: a transport failure and a non-2xx status make get_user_info fail without
\* a UserInfo, the latter with the status code in its error; and two replies that
\* fail in different ways (transport, status, schema) give errors of different
\* kinds.
ErrorKindsDistinguishable ==
    [][\A s \in Sessions, http \in AdapterReplies :
         user_info_response(s, http)
            => LET provider == cb[s].flow.provider
                   adapter == oauth_providers[provider]
                   user_info == get_user_info(adapter, http)
               IN /\ FailureClass(provider, http) \in {"transport", "status"}
                       => (~user_info.ok /\ user_info.val = <<>>)
                  /\ FailureClass(provider, http) = "status"
                       => user_info.err.arg = ToString(http.status)
                  /\ \A other \in {TransportError, HttpReply(401, JNull),
                                   HttpReply(200, JObj(<<>>))} :
                        (/\ FailureClass(provider, http) # "none"
                         /\ FailureClass(provider, other) # FailureClass(provider, http)
                         /\ ~user_info.ok
                         /\ ~get_user_info(adapter, other).ok)
                           => ErrorKind(get_user_info(adapter, other).err)
                                 # ErrorKind(user_info.err)]_vars

\* C26: a callback looks the flow up, then compares the state, then resolves the
\* stored provider, then exchanges the code, then fetches the user info: it
\* answers with the error of the first of these that fails and sends the token
\* request only when the first three passed, whatever the token endpoint would
\* answer, and the user-info request only on the token endpoint's acceptance.
StepOrder ==
    [][\A s \in Sessions :
         /\ \A code \in Codes, state \in StateValues :
               oauth_callback(s, code, state)
                  => IF Flow(s) = <<>>
                     THEN /\ resp' = Emit("callback", s, NoActiveFlow)
                          /\ sent' = NoRequest /\ cb'[s].pc = "idle"
                     ELSE IF Flow(s)[1].csrf_token # state
                     THEN /\ resp' = Emit("callback", s, CsrfMismatch)
                          /\ sent' = NoRequest /\ cb'[s].pc = "idle"
                     ELSE IF Flow(s)[1].provider \notin DOMAIN oauth_providers
                     THEN /\ resp' = Emit("callback", s, bad_request("Invalid provider"))
                          /\ sent' = NoRequest /\ cb'[s].pc = "idle"
                     ELSE /\ resp' = NoResponse
                          /\ sent'.to = "token" /\ cb'[s].pc = "exchange"
         /\ \A o \in TokenOutcomes, a \in AccessTokens :
               token_response(s, o, a)
                  => /\ cb[s].pc = "exchange"
                     /\ IF o = "ok"
                        THEN resp' = NoResponse /\ sent'.to = "userinfo"
                        ELSE resp' = Emit("callback", s, TokenExchangeFailed)
                                /\ sent' = NoRequest
         /\ \A http \in AdapterReplies :
               user_info_response(s, http)
                  => (cb[s].pc = "userinfo" /\ sent' = NoRequest /\ resp'.op = "callback")
         /\ sent'.to = "token" => (recv' = NoAnswer /\ cb[sent'.session].pc = "idle")
         /\ sent'.to = "userinfo" => (recv'.from = "token" /\ recv'.outcome = "ok")]_vars

\* A callback with a stale state has just been refused on a session that
\* initiated twice, before any request left for the token endpoint
StepOrderWitness ==
    /\ resp = Emit("callback", "sess1", CsrfMismatch)
    /\ sent = NoRequest
    /\ Len(issued) = 2
    /\ Flow("sess1") # <<>>
    /\ Flow("sess1")[1].csrf_token = issued[2].csrf_token

\* C27: the token request of a callback carries the verifier drawn by the very
\* initiate that drew the csrf_token the callback's state matched, an initiate of
\* the callback's own session, and goes with the client credentials of that
\* FlowState's provider to its token endpoint; the user-info request that
\* follows goes to the user-info URL of the same provider, and the flow a
\* suspended callback holds is the one it read.
ExchangeUsesOwnMaterial ==
    /\ [](\A s \in Sessions :
             cb[s].pc # "idle" =>
                \E i \in 1..Len(issued) :
                   /\ issued[i].csrf_token = cb[s].flow.csrf_token
                   /\ issued[i].pkce_verifier = cb[s].flow.pkce_verifier)
    /\ [][\A s \in Sessions :
            /\ \A code \in Codes, state \in StateValues :
                  (oauth_callback(s, code, state) /\ sent'.to = "token")
                     => LET flow == latest[s][1].flow
                            config == settings[flow.provider]
                        IN /\ flow.csrf_token = state
                           /\ \E i \in 1..Len(issued) :
                                 /\ issued[i].csrf_token = state
                                 /\ issued[i].pkce_verifier = sent'.code_verifier
                           /\ sent'.code_verifier = flow.pkce_verifier
                           /\ sent'.code = code
                           /\ sent'.url = config.token_url
                           /\ sent'.client_id = config.client_id
                           /\ sent'.client_secret = config.client_secret
                           /\ sent'.redirect_uri = config.redirect_uri
                           /\ cb'[s].flow = flow
            /\ \A o \in TokenOutcomes, a \in AccessTokens :
                  (token_response(s, o, a) /\ sent'.to = "userinfo")
                     => /\ sent'.url = settings[cb[s].flow.provider].user_info_url
                        /\ sent'.authorization = <<"Bearer", a>>
                        /\ cb'[s].flow = cb[s].flow]_vars

\* A token request has just left for github with the verifier of the second
\* initiate of its session, whose first initiate it overwrote
ExchangeUsesOwnMaterialWitness ==
    \E s \in Sessions :
        /\ sent.to = "token" /\ sent.session = s
        /\ Len(issued) = 2
        /\ \A o \in Sessions \ {s} : latest[o] = <<>>
        /\ sent.code_verifier = issued[2].pkce_verifier
        /\ sent.url = settings["github"].token_url

\* C28: the provider of every FlowState in the store, and of every FlowState a
\* suspended callback holds, is a key of the adapter mapping; no callback has
\* answered from its provider lookup.
StoredProviderResolves ==
    /\ \A s \in Sessions :
          /\ store[s] # <<>> =>
                store[s][1].data[OAUTH_SESSION_STATE_KEY].provider \in DOMAIN oauth_providers
          /\ cb[s].pc # "idle" => cb[s].flow.provider \in DOMAIN oauth_providers
    /\ ~(resp.op = "callback" /\ resp.r = bad_request("Invalid provider"))

\* A callback has passed its provider lookup on one session while the other
\* session's initiate has just been refused for an unknown provider
StoredProviderResolvesWitness ==
    \E s \in Sessions : \E o \in Sessions \ {s} :
        /\ cb[s].pc = "exchange"
        /\ store[s] # <<>>
        /\ resp = Emit("authorize", o, bad_request("Invalid provider"))

\* C29: the FlowState a session's callback would read, and the one a suspended
\* callback did read, is at every moment the provider, verifier and csrf_token of
\* one single initiate; the FlowState a callback reads is the one its session's
\* most recent initiate wrote, although an initiate may overwrite it while the
\* callback is suspended.
NoTornFlowState ==
    /\ [](\A s \in Sessions :
             /\ Flow(s) # <<>> => \E i \in 1..Len(issued) : issued[i] = Flow(s)[1]
             /\ cb[s].pc # "idle" => \E i \in 1..Len(issued) : issued[i] = cb[s].flow)
    /\ [][\A s \in Sessions, code \in Codes, state \in StateValues :
            (oauth_callback(s, code, state) /\ cb'[s].pc # "idle")
               => cb'[s].flow = latest[s][1].flow]_vars

\* A callback is suspended with the whole flow of its session's first initiate
\* while the store holds the whole flow of the second, for another provider
NoTornFlowStateWitness ==
    \E s \in Sessions :
        /\ Len(issued) = 2
        /\ issued[1].provider # issued[2].provider
        /\ cb[s].pc = "exchange"
        /\ cb[s].flow = issued[1]
        /\ Flow(s) = <<issued[2]>>

\* C30: whenever a callback of one session is suspended at the token exchange or
\* the user-info fetch, every other session can take its next step at once: an
\* initiate, a new callback when it has none in flight, or the next step of its
\* own callback when the endpoint it waits for answers.
NoBlockingAcrossRequests ==
    \A s \in Sessions :
        cb[s].pc \in {"exchange", "userinfo"} =>
           \A o \in Sessions \ {s} :
              /\ ENABLED (\E provider \in RequestedProviders, inserted \in InsertResults :
                             oauth_authorize(o, provider, inserted))
              /\ nonce < MaxInitiates => ENABLED oauth_authorize(o, "google", "ok")
              /\ cb[o].pc = "idle" =>
                    \A code \in Codes, state \in StateValues :
                       ENABLED oauth_callback(o, code, state)
              /\ cb[o].pc = "exchange" =>
                    \A outcome \in TokenOutcomes, a \in AccessTokens :
                       ENABLED token_response(o, outcome, a)
              /\ cb[o].pc = "userinfo" =>
                    \A http \in UserInfoReplies : ENABLED user_info_response(o, http)

\* A callback has just completed on one session while the callback of the other
\* is still suspended at its user-info fetch
NoBlockingAcrossRequestsWitness ==
    \E s \in Sessions : \E o \in Sessions \ {s} :
        /\ cb[s].pc = "userinfo"
        /\ resp.op = "callback" /\ resp.session = o /\ resp.r.status = 200
        /\ phase[o] = "Completed"
        /\ phase[s] = "Initiated"

\* C35: once main has run over a configuration holding an entry whose name the
\* registry lacks and one of whose four URLs does not parse, the process has
\* aborted and no adapter exists: the entry is validated, not skipped.
ValidationPrecedesLookup ==
    (/\ process # "starting"
     /\ \E name \in (DOMAIN settings) \ OAUTH_PROVIDER_REGISTRY :
           ~FourUrlsValid(settings[name]))
       => /\ process = "aborted"
          /\ process # "serving"
          /\ DOMAIN oauth_providers = {}

\* The process has aborted over a configuration whose only unparsable URL is the
\* user-info URL of gitlab, which the registry lacks, next to a valid google entry
ValidationPrecedesLookupWitness ==
    /\ process = "aborted"
    /\ DOMAIN settings = {"google", "gitlab"}
    /\ FourUrlsValid(settings["google"])
    /\ ~UrlParses(settings["gitlab"].user_info_url)
    /\ "gitlab" \notin OAUTH_PROVIDER_REGISTRY

\* C34: a callback whose read of the FlowState from the session store fails
\* answers 500, sends neither a token request nor a user-info request, starts no
\* exchange, and leaves the store as it was.
SessionReadFailure ==
    [][\A s \in Sessions, code \in Codes, state \in StateValues :
         oauth_callback_get_failed(s, code, state)
            => /\ resp'.op = "callback" /\ resp'.session = s
               /\ resp'.r.status = 500
               /\ resp'.r.json = <<>>
               /\ sent' = NoRequest
               /\ cb' = cb
               /\ store' = store]_vars

\* The read has just failed for a callback on a session whose flow is live in the
\* store
SessionReadFailureWitness ==
    \E s \in Sessions :
        /\ resp = Emit("callback", s,
                       internal_error("Failed to retrieve OAuth session state from session"))
        /\ Flow(s) # <<>>
        /\ phase[s] = "Initiated"

\* C33: an identity is returned on session s only as the last step of a callback
\* of s that passed the CSRF comparison, and a callback of s passes it only when
\* its `state` is the csrf_token the most recent initiate of s wrote, that
\* FlowState being unexpired as the callback reads it; the state of any other
\* initiate, of another session or of an earlier initiate of s, does not pass.
\* The callback carries the flow it read, unchanged, to its end.
AuthenticationInvariant ==
    /\ [][\A s \in Sessions, code \in Codes, state \in StateValues :
            (oauth_callback(s, code, state) /\ cb'[s].pc # "idle")
               => /\ latest[s] # <<>>
                  /\ state = latest[s][1].flow.csrf_token
                  /\ now - latest[s][1].at < CACHE_TTL
                  /\ cb'[s].flow = latest[s][1].flow
                  /\ \A o \in Sessions \ {s} :
                        latest[o] # <<>> => latest[o][1].flow.csrf_token # state
                  /\ \A i \in 1..Len(issued) :
                        issued[i].csrf_token = state => issued[i] = latest[s][1].flow]_vars
    /\ [][\A s \in Sessions :
            /\ (cb[s].pc = "idle" /\ cb'[s].pc # "idle")
                  => \E code \in Codes, state \in StateValues : oauth_callback(s, code, state)
            /\ (cb[s].pc # "idle" /\ cb'[s].pc # "idle") => cb'[s].flow = cb[s].flow
            /\ (resp'.op = "callback" /\ resp'.session = s /\ resp'.r.json # <<>>)
                  => /\ cb[s].pc = "userinfo"
                     /\ recv'.from = "userinfo" /\ recv'.session = s]_vars

\* An identity has just been returned on the session of the second initiate,
\* while the other session holds the live flow of the first
AuthenticationInvariantWitness ==
    \E s \in Sessions : \E o \in Sessions \ {s} :
        /\ resp.op = "callback" /\ resp.session = s /\ resp.r.json # <<>>
        /\ latest[s] # <<>> /\ latest[s][1].flow.csrf_token = new_random(2)
        /\ Flow(o) # <<>> /\ Flow(o)[1].csrf_token = new_random(1)

\* C32: whatever the state of the session's flow, an initiate that names a
\* configured provider and whose store write succeeds answers with the redirect
\* and leaves the session Initiated, holding a FlowState for that provider whose
\* csrf_token and verifier no earlier initiate drew, the csrf_token being the
\* state of the redirect; and a callback that presents the csrf_token of the
\* session's most recent initiate while its FlowState is held passes the CSRF
\* comparison and sends the token request.
RestartFromAnyState ==
    /\ [][\A s \in Sessions, provider \in RequestedProviders :
            (oauth_authorize(s, provider, "ok") /\ provider \in DOMAIN oauth_providers)
               => LET got == session_get(store', s, now', OAUTH_SESSION_STATE_KEY)
                  IN /\ resp'.r.status = 303
                     /\ phase'[s] = "Initiated"
                     /\ got # <<>>
                     /\ got[1].provider = provider
                     /\ resp'.r.location[1].state = got[1].csrf_token
                     /\ \A i \in 1..Len(issued) :
                           /\ issued[i].csrf_token # got[1].csrf_token
                           /\ issued[i].pkce_verifier # got[1].pkce_verifier
                     /\ latest'[s][1].flow = got[1]]_vars
    /\ [][\A s \in Sessions, code \in Codes, state \in StateValues :
            (/\ oauth_callback(s, code, state)
             /\ phase[s] = "Initiated"
             /\ Flow(s) # <<>>
             /\ state = latest[s][1].flow.csrf_token)
               => /\ sent'.to = "token"
                  /\ sent'.code_verifier = latest[s][1].flow.pkce_verifier
                  /\ cb'[s].pc = "exchange"]_vars

\* Both initiates were of one session, and a callback presenting the state of
\* the second is at the token exchange
RestartFromAnyStateWitness ==
    \E s \in Sessions :
        /\ Len(issued) = 2
        /\ \A o \in Sessions \ {s} : latest[o] = <<>>
        /\ phase[s] = "Initiated"
        /\ cb[s].pc = "exchange"
        /\ cb[s].flow.csrf_token = new_random(2)
        /\ sent.to = "token"

\* The FlowStates an initiate may write
FlowStates ==
    {OAuthSessionState(provider, new_random_sha256(n).verifier, new_random(n)) :
        provider \in DOMAIN build_oauth_providers(SettingsOAuth), n \in 1..MaxInitiates}

\* C31: as time advances, a FlowState a session holds is eventually no longer
\* readable on that session (a callback then finds none), unless a further
\* initiate on the session has written another; callbacks attempted on it in the
\* meantime, passing, refused or cancelled, change nothing to that.
AbandonedFlowsExpire ==
    \A s \in Sessions, f \in FlowStates :
        (Flow(s) = <<f>>)
           ~> (\/ Flow(s) = <<>>
               \/ latest[s][1].flow # f)

\* A session's flow has outlived the TTL after a callback on it had completed,
\* and a callback on it has just been refused for want of a flow
AbandonedFlowsExpireWitness ==
    \E s \in Sessions :
        /\ latest[s] # <<>>
        /\ store[s] # <<>>
        /\ Flow(s) = <<>>
        /\ phase[s] = "Completed"
        /\ now = LastInitiate + CACHE_TTL + 1
        /\ resp = Emit("callback", s, NoActiveFlow)

====
